---- MODULE Spec2Model ----
(***************************************************************************)
(* Air Quality Platform mock API (src/Kavish/main.py): the generators of   *)
(* synthetic telemetry, the static station / alert catalog, and the        *)
(* visualization endpoints (image and chart-description document).         *)
(*                                                                         *)
(* Numbers with two decimals (values, scores, percentages) are integers    *)
(* in hundredths: 33.00 is 3300.  Timestamps are integers in clock ticks   *)
(* since process start; Hour is the number of ticks of timedelta(hours=1). *)
(* Pollutant labels are sequences of one-character strings, so that        *)
(* upper() and startswith() are computed and not assumed.  An Optional     *)
(* argument is <<>> for None and <<v>> for a given value v.                *)
(***************************************************************************)
EXTENDS Integers, Sequences, FiniteSets, TLC

(* ------------------------------ bounds -------------------------------- *)
MaxHours == 2
MaxClock == 2
MaxLimit == 3
MaxOffset == 3
MaxFigs == 1
MaxVizClock == 1
MaxConcHours == 2
MaxConcClock == 1
MaxRenderFigs == 3
MaxFigNum == 3

(* -------------------------- program constants ------------------------- *)
Hour == 3600
BasePM == 80
BaseOther == 30
CiHalfWidth == 800
LowCut == 3300
HighCut == 6600
ThresholdPM == 50
ThresholdOther == 40
DialLow == 33
DialMed == 66
DialHigh == 100
NotFoundStatus == 404
HalfTurn == 180000
PerHundredth == 18

(* ------------------------------ helpers ------------------------------- *)
None == <<>>
Some(v) == <<v>>

Max(a, b) == IF a >= b THEN a ELSE b
Min(a, b) == IF a <= b THEN a ELSE b

\* Python truthiness of an Optional[str]: None and "" are both falsy.
TruthyStr(opt) == opt # None /\ opt[1] # ""

\* Python truthiness of an Optional[datetime]: every datetime is truthy.
TruthyDatetime(opt) == opt # None

\* str.upper() on one character, for the characters of the labels used.
UpperChar(c) ==
  CASE c = "p" -> "P"
    [] c = "m" -> "M"
    [] c = "n" -> "N"
    [] c = "o" -> "O"
    [] OTHER -> c

Upper(s) == [i \in 1..Len(s) |-> UpperChar(s[i])]

StartsWith(s, prefix) ==
  /\ Len(s) >= Len(prefix)
  /\ \A i \in 1..Len(prefix) : s[i] = prefix[i]

PMPrefix == <<"P", "M">>

\* round(n / d) to the nearest integer, ties to even (Python's round), d > 0, n >= 0.
RoundDiv(n, d) ==
  LET q == n \div d
      r == n % d
  IN  IF 2 * r < d THEN q
      ELSE IF 2 * r > d THEN q + 1
      ELSE IF q % 2 = 0 THEN q ELSE q + 1

\* Python slice s[lo:hi] for 0 <= lo, 0 <= hi.
Slice(s, lo, hi) ==
  LET h == Min(hi, Len(s))
  IN  IF lo >= h THEN <<>> ELSE SubSeq(s, lo + 1, h)

RECURSIVE SumSeq(_)
SumSeq(s) == IF s = <<>> THEN 0 ELSE Head(s) + SumSeq(Tail(s))

(* ------------------------------ labels -------------------------------- *)
PM25 == <<"P", "M", "2", ".", "5">>
PM10 == <<"P", "M", "1", "0">>
NO2 == <<"N", "O", "2">>
O3 == <<"O", "3">>
pm25lower == <<"p", "m", "2", ".", "5">>
\* a label that is invalid mathtext once placed in a chart title
BadMath == <<"$", "\\", "f", "$">>

Pollutants == {PM25, NO2, pm25lower}

(* ------------------------------- state -------------------------------- *)
VARIABLES
  clock,      \* datetime.utcnow(), in ticks since process start
  STATIONS,   \* _STATIONS
  ALERTS,     \* _ALERTS
  resp,       \* the last call of a generator or catalog query, and its result
  png,        \* the last image endpoint call: what was drawn
  doc,        \* the last document endpoint call: the chart description
  gcf,        \* pyplot's registry of open figures, the current one last
  pc,         \* concurrent forecast callers: position of each
  hv,         \* concurrent forecast callers: loop index h of each
  hrs,        \* concurrent forecast callers: argument hours of each
  ts,         \* concurrent forecast callers: local ts of each
  out,        \* concurrent forecast callers: local list out of each
  rpc,        \* concurrent render calls: position of each
  rkind,      \* concurrent render calls: which render function each runs
  rfig,       \* concurrent render calls: the figure each created
  acted       \* the last pyplot / figure operation: who did it, on which figure

vars == <<clock, STATIONS, ALERTS, resp, png, doc, gcf, pc, hv, hrs, ts, out,
          rpc, rkind, rfig, acted>>

(* --------------------------- mock data -------------------------------- *)
\* _STATIONS as seeded (lat, lon, tags and sensors play no part in any query).
SeedStations ==
  << [station_id |-> "ST-DEL-001", name |-> "Delhi - ITO", region |-> "Delhi NCR"],
     [station_id |-> "ST-DEL-002", name |-> "Gurgaon - Sector 14", region |-> "Delhi NCR"] >>

\* _ALERTS as seeded; ts is datetime.utcnow() at import, tick 0, offset-naive.
SeedAlerts ==
  << [alert_id |-> "A-001", station_id |-> "ST-DEL-001", pollutant |-> PM25,
      threshold |-> 6000, observed_value |-> 8200, ts |-> 0, status |-> "active"] >>

(* ---------------------------- generators ------------------------------ *)
\* math.sin(h/6.0) * 10 in hundredths, h = 0 .. 167 (the longest horizon, 7d).
SinTable ==
  <<
     0, 166, 327, 479, 618, 740, 841, 919, 972, 997, 995, 966,
     909, 828, 723, 598, 457, 303, 141, -25, -191, -351, -501, -638,
     -757, -855, -929, -978, -999, -993, -959, -899, -813, -706, -578, -435,
     -279, -116, 50, 215, 374, 523, 657, 773, 867, 938, 983, 1000,
     989, 952, 887, 798, 688, 558, 412, 255, 91, -75, -240, -397,
     -544, -676, -789, -880, -946, -987, -1000, -985, -943, -875, -783, -669,
     -537, -389, -231, -66, 100, 264, 420, 565, 694, 804, 891, 954,
     991, 1000, 981, 935, 863, 767, 650, 515, 366, 206, 41, -125,
     -288, -443, -585, -712, -818, -902, -961, -994, -999, -976, -926, -850,
     -751, -631, -494, -342, -182, -16, 150, 312, 465, 606, 729, 833,
     913, 968, 996, 997, 970, 916, 837, 734, 611, 472, 319, 157,
     -9, -175, -336, -487, -625, -746, -846, -923, -974, -998, -995, -963,
     -906, -823, -717, -591, -449, -295, -132, 34, 199, 359, 509, 645,
     763, 859, 932, 979, 999, 992, 956, 895, 808, 699, 571, 427 >>

SinTerm(h) == SinTable[h + 1]

\* random.random() * 0.6 * 10 in hundredths: the ends of [0, 6).
ForecastDraws == {0, 599}

\* round(40 + random.random() * 80, 2) in hundredths: the ends of [40, 120].
TimeseriesDraws == {4000, 12000}

\* round(random.uniform(10, 90), 2) in hundredths: the ends and the values around the cut points.
ScoreDraws == {1000, 3299, 3300, 6600, 9000}

\* random.uniform(10, 40): the ends and one inner magnitude.
AttrDraws == {10, 27, 40}

Sources == <<"Traffic", "Industry", "Construction", "Residential", "Natural">>

RiskPollutants == <<PM25, PM10, NO2, O3>>

\* base = 80 if pollutant.upper().startswith("PM") else 30
ForecastBase(pollutant) ==
  IF StartsWith(Upper(pollutant), PMPrefix) THEN BasePM ELSE BaseOther

\* one iteration of the loop of generate_forecasts: now is what utcnow() returned
\* in this iteration, r the random term of this iteration.
ForecastPoint(base, h, now, r) ==
  LET val == Max(0, base * 100 + SinTerm(h) + r)
  IN  [ ts |-> now + h * Hour,
        value |-> val,
        ci_lower |-> Max(0, val - CiHalfWidth),
        ci_upper |-> val + CiHalfWidth,
        model_version |-> "mock-v0.3" ]

\* generate_forecasts: nows[i] and rs[i] are the clock reading and the random
\* term of iteration h = i - 1.
generate_forecasts(pollutant, hours, nows, rs) ==
  [i \in 1..hours |-> ForecastPoint(ForecastBase(pollutant), i - 1, nows[i], rs[i])]

\* generate_timeseries with the range stopping before h = 0: range(hours, 0, -1).
generate_timeseriesExclusive(hours, nows, rs) ==
  [i \in 1..hours |->
     [ts |-> nows[i] - (hours + 1 - i) * Hour, value |-> rs[i], qa_flag |-> "good"]]

\* generate_timeseries: for h in range(hours, -1, -1); iteration i has h = hours + 1 - i.
\* A negative hours gives an empty range.
generate_timeseries(hours, nows, rs) ==
  [i \in 1..(hours + 1) |->
     [ts |-> nows[i] - (hours + 1 - i) * Hour, value |-> rs[i], qa_flag |-> "good"]]

\* Category with the cut points taken inclusively (<= for <).
CategoryInclusive(score) ==
  IF score <= LowCut THEN "Low" ELSE IF score <= HighCut THEN "Moderate" ELSE "High"

\* cat = "Low" if score < 33 else "Moderate" if score < 66 else "High"
Category(score) ==
  IF score < LowCut THEN "Low" ELSE IF score < HighCut THEN "Moderate" ELSE "High"

\* RiskThreshold giving every label the particulate threshold.
RiskThresholdFlat(pollutant) == ThresholdPM

\* threshold = 50 if pollutant.startswith("PM") else 40
RiskThreshold(pollutant) ==
  IF StartsWith(pollutant, PMPrefix) THEN ThresholdPM ELSE ThresholdOther

generate_risk_scores(draws) ==
  [i \in 1..Len(RiskPollutants) |->
     [ pollutant |-> RiskPollutants[i],
       score_0_100 |-> draws[i],
       category |-> Category(draws[i]),
       threshold_used |-> RiskThreshold(RiskPollutants[i]) ]]

\* AttrPercent truncated to a whole percent.
AttrPercentWhole(v, total) == ((v * 100) \div total) * 100

\* p = round((v/total)*100, 2), in hundredths of a percent
AttrPercent(v, total) == RoundDiv(v * 10000, total)

\* "value": round((v/total)*100, 2), in hundredths
AttrValue(v, total) == RoundDiv(v * 10000, total)

\* generate_attribution drawing its magnitudes from uniform(0, 30): v - 10.
generate_attributionFromZero(pollutant, vals) ==
  LET total == SumSeq(vals) - 10 * Len(vals)
  IN  IF total = 0
      THEN [ raised |-> "ZeroDivisionError" ]
      ELSE [ raised |-> "",
             pollutant |-> pollutant,
             total |-> total * 100,
             breakdown |->
               [i \in 1..Len(Sources) |->
                  [ source |-> Sources[i],
                    contribution_percent |-> AttrPercent(vals[i] - 10, total),
                    value |-> AttrValue(vals[i] - 10, total) ]] ]

\* generate_attribution on the magnitudes vals (the five uniform draws):
\* total = sum(vals); "(v/total)*100" divides with no test of total, so a zero
\* total raises ZeroDivisionError inside the loop.
generate_attribution(pollutant, vals) ==
  LET total == SumSeq(vals)
  IN  IF total = 0
      THEN [ raised |-> "ZeroDivisionError" ]
      ELSE [ raised |-> "",
             pollutant |-> pollutant,
             total |-> total * 100,
             breakdown |->
               [i \in 1..Len(Sources) |->
                  [ source |-> Sources[i],
                    contribution_percent |-> AttrPercent(vals[i], total),
                    value |-> AttrValue(vals[i], total) ]] ]

\* The sequences of n clock readings a call can see: utcnow() never goes back
\* during a call, and the first reading is not before the clock at the call.
ClockReads(n, from, max) ==
  { s \in [1..n -> from..max] : \A i \in 1..(n - 1) : s[i] <= s[i + 1] }

LastRead(nows, from) == IF Len(nows) = 0 THEN from ELSE nows[Len(nows)]

(* ------------------------------ catalog ------------------------------- *)
\* list_stations: "if region:" filters only for a truthy region.
list_stations(stations, region, limit, offset) ==
  LET results == IF TruthyStr(region)
                 THEN SelectSeq(stations, LAMBDA s : s.region = region[1])
                 ELSE stations
  IN  Slice(results, offset, offset + limit)

\* get_station answering with the first station whatever the id.
get_stationFirst(stations, station_id) ==
  IF stations # <<>> THEN [status |-> 200, body |-> stations[1]]
  ELSE [status |-> NotFoundStatus, detail |-> "station not found"]

\* get_station: the first station of the list with that id, else HTTPException(404).
get_station(stations, station_id) ==
  IF \E i \in 1..Len(stations) : stations[i].station_id = station_id
  THEN LET i == CHOOSE k \in 1..Len(stations) :
                  /\ stations[k].station_id = station_id
                  /\ \A j \in 1..(k - 1) : stations[j].station_id # station_id
       IN  [status |-> 200, body |-> stations[i]]
  ELSE [status |-> NotFoundStatus, detail |-> "station not found"]

\* any(s.region == region and s.station_id == a.station_id for s in _STATIONS)
AlertInRegion(a, stations, region) ==
  \E i \in 1..Len(stations) :
     stations[i].region = region /\ stations[i].station_id = a.station_id

\* list_alerts: since is None or <<[t |-> tick, aware |-> has a UTC offset]>>.
\* a.ts is offset-naive (utcnow); comparing it with an offset-aware datetime
\* raises TypeError, which happens as soon as one alert is compared.
list_alerts(alerts, stations, region, since) ==
  LET byRegion == IF TruthyStr(region)
                  THEN SelectSeq(alerts, LAMBDA a : AlertInRegion(a, stations, region[1]))
                  ELSE alerts
  IN  IF ~TruthyDatetime(since) THEN [raised |-> "", body |-> byRegion]
      ELSE IF since[1].aware /\ byRegion # <<>> THEN [raised |-> "TypeError", body |-> <<>>]
      ELSE [raised |-> "", body |-> SelectSeq(byRegion, LAMBDA a : a.ts >= since[1].t)]

\* list_alerts filtering _ALERTS in place ("_ALERTS[:] = [...]").
AlertsFilteredInPlace(alerts, stations, region, since) ==
  list_alerts(alerts, stations, region, since).body

\* _ALERTS after list_alerts: "out = _ALERTS" aliases the list, but each filter
\* rebinds out to a new list; the collection itself is never assigned or mutated.
AlertsAfterListAlerts(alerts, stations, region, since) == alerts

(* --------------------- inputs of the catalog queries ------------------ *)
Regions == {None, Some(""), Some("Delhi NCR"), Some("Nowhere")}
StationIds == {"ST-DEL-001", "ST-DEL-002", "ST-DEL-003", ""}
Sinces == {None} \cup { Some([t |-> n, aware |-> a]) : n \in 0..1, a \in BOOLEAN }

(* ---------------------------- initial state --------------------------- *)
NoResponse == [kind |-> "none", req |-> <<>>]

Callers == {1, 2}
Renderers == {1, 2}
NoAct == [by |-> 0, step |-> "none", on |-> 0, own |-> 0]

Init ==
  /\ clock = 0
  /\ STATIONS = SeedStations
  /\ ALERTS = SeedAlerts
  /\ resp = [op |-> "none"]
  /\ png = NoResponse
  /\ doc = NoResponse
  /\ gcf = <<>>
  /\ pc = [c \in Callers |-> "idle"]
  /\ hv = [c \in Callers |-> 0]
  /\ hrs = [c \in Callers |-> 0]
  /\ ts = [c \in Callers |-> 0]
  /\ out = [c \in Callers |-> <<>>]
  /\ rpc = [r \in Renderers |-> "idle"]
  /\ rkind = [r \in Renderers |-> "line"]
  /\ rfig = [r \in Renderers |-> 0]
  /\ acted = NoAct

renderVars == <<rpc, rkind, rfig, acted>>
vizVars == <<png, doc, gcf>>
concVars == <<pc, hv, hrs, ts, out>>
catalogVars == <<STATIONS, ALERTS>>

(* ------------- generators and catalog queries, one call each ---------- *)
GenerateForecasts ==
  \E pollutant \in Pollutants, hours \in 0..MaxHours :
    \E nows \in ClockReads(hours, clock, MaxClock), rs \in [1..hours -> ForecastDraws] :
      /\ resp' = [ op |-> "generate_forecasts", pollutant |-> pollutant, hours |-> hours,
                   result |-> generate_forecasts(pollutant, hours, nows, rs) ]
      /\ clock' = LastRead(nows, clock)
      /\ UNCHANGED <<catalogVars, renderVars, vizVars, concVars>>

GenerateTimeseries ==
  \E hours \in 0..MaxHours :
    \E nows \in ClockReads(hours + 1, clock, MaxClock), rs \in [1..(hours + 1) -> TimeseriesDraws] :
      /\ resp' = [ op |-> "generate_timeseries", hours |-> hours,
                   result |-> generate_timeseries(hours, nows, rs) ]
      /\ clock' = LastRead(nows, clock)
      /\ UNCHANGED <<catalogVars, renderVars, vizVars, concVars>>

GenerateRiskScores ==
  \E draws \in [1..Len(RiskPollutants) -> ScoreDraws] :
    /\ resp' = [op |-> "generate_risk_scores", result |-> generate_risk_scores(draws)]
    /\ UNCHANGED <<clock, catalogVars, renderVars, vizVars, concVars>>

GenerateAttribution ==
  \E pollutant \in {PM25, NO2}, vals \in [1..Len(Sources) -> AttrDraws] :
    /\ resp' = [ op |-> "generate_attribution", vals |-> vals,
                 result |-> generate_attribution(pollutant, vals) ]
    /\ UNCHANGED <<clock, catalogVars, renderVars, vizVars, concVars>>

ListStations ==
  \E region \in Regions, limit \in 0..MaxLimit, offset \in 0..MaxOffset :
    /\ resp' = [ op |-> "list_stations", region |-> region, limit |-> limit,
                 offset |-> offset,
                 result |-> list_stations(STATIONS, region, limit, offset) ]
    /\ UNCHANGED <<clock, catalogVars, renderVars, vizVars, concVars>>

GetStation ==
  \E station_id \in StationIds :
    /\ resp' = [ op |-> "get_station", station_id |-> station_id,
                 result |-> get_station(STATIONS, station_id) ]
    /\ UNCHANGED <<clock, catalogVars, renderVars, vizVars, concVars>>

ListAlerts ==
  \E region \in Regions, since \in Sinces :
    /\ resp' = [ op |-> "list_alerts", region |-> region, since |-> since,
                 result |-> list_alerts(ALERTS, STATIONS, region, since) ]
    /\ ALERTS' = AlertsAfterListAlerts(ALERTS, STATIONS, region, since)
    /\ UNCHANGED <<clock, STATIONS, renderVars, vizVars, concVars>>

\* The generators anchored to the wall clock.
Next ==
  \/ GenerateForecasts
  \/ GenerateTimeseries

Spec == Init /\ [][Next]_vars

\* The generators that only draw random numbers, and the catalog queries.
NextQuery ==
  \/ GenerateRiskScores
  \/ GenerateAttribution
  \/ ListStations
  \/ GetStation
  \/ ListAlerts

SpecQuery == Init /\ [][NextQuery]_vars

\* The four generators alone.
NextGenerators ==
  \/ GenerateForecasts
  \/ GenerateTimeseries
  \/ GenerateRiskScores
  \/ GenerateAttribution

SpecGenerators == Init /\ [][NextGenerators]_vars

\* Magnitudes over the whole non-negative range, zero included, which
\* random.uniform(10, 40) itself never returns.
AnyMagnitudes == {0, 10, 40}

\* The computation of generate_attribution (total, shares, breakdown) applied
\* to five magnitudes of the whole non-negative range.
AttributionOfMagnitudes ==
  \E vals \in [1..Len(Sources) -> AnyMagnitudes] :
    /\ resp' = [ op |-> "attribution_of_magnitudes", vals |-> vals,
                 result |-> generate_attribution(PM25, vals) ]
    /\ UNCHANGED <<clock, catalogVars, renderVars, vizVars, concVars>>

SpecMagnitudes == Init /\ [][AttributionOfMagnitudes]_vars

(* --------------------- pyplot's figure registry ----------------------- *)
\* plt.figure() / plt.subplots(): a new figure, numbered max + 1, becomes current.
NewFigNum(g) ==
  IF g = <<>> THEN 1
  ELSE 1 + (CHOOSE m \in {g[i] : i \in 1..Len(g)} : \A i \in 1..Len(g) : g[i] <= m)

OpenFigure(g) == Append(g, NewFigNum(g))

\* plt.close(): the current figure (the last of the registry) is destroyed.
CloseCurrent(g) == IF g = <<>> THEN g ELSE SubSeq(g, 1, Len(g) - 1)

\* plt.close(fig): that figure is destroyed.
CloseFigure(g, num) == SelectSeq(g, LAMBDA n : n # num)

\* matplotlib draws a text as mathtext when it holds an even, non-zero number of "$".
IsMathText(s) ==
  LET n == Cardinality({i \in 1..Len(s) : s[i] = "$"})
  IN  n > 0 /\ n % 2 = 0

\* Laying out or drawing a title raises ValueError when it is mathtext holding a
\* command the mathtext parser does not know (among the labels used: "\f").
TitleRaises(title) == IsMathText(title) /\ \E i \in 1..Len(title) : title[i] = "\\"

DelhiNCR == <<"D", "e", "l", "h", "i", " ", "N", "C", "R">>

(* ------------------------------ renderers ----------------------------- *)
\* _line_plot_png(x, y, title): registry g at the call.  plt.plot raises when x
\* and y differ in length, plt.tight_layout when the title cannot be laid out;
\* plt.close() is reached only when nothing raised.
line_plot_png(g, x, y, title) ==
  LET g1 == OpenFigure(g)
  IN  IF Len(x) # Len(y) THEN [raised |-> "ValueError", gcf |-> g1]
      ELSE IF TitleRaises(title) THEN [raised |-> "ValueError", gcf |-> g1]
      ELSE [raised |-> "", gcf |-> CloseCurrent(g1), x |-> x, y |-> y]

\* Angles are in thousandths of a degree, values in hundredths.
\* norm = lambda v: math.radians(180 * (v/100)): 0.018 degree per hundredth.
DialNorm(v) == PerHundredth * v

\* the needle drawn at norm(value_pct), without the mirror "pi -"
NeedleAngleUnmirrored(v) == DialNorm(v)

\* theta = math.pi - norm(value_pct)
NeedleAngle(v) == HalfTurn - DialNorm(v)

\* sectors = [(0,33,..), (33,66,..), (66,100,..)]
DialBands == << <<0, DialLow>>, <<DialLow, DialMed>>, <<DialMed, DialHigh>> >>

\* theta1 = degrees(pi - norm(b)), theta2 = degrees(pi - norm(a)) of each wedge
DialSectors ==
  [i \in 1..Len(DialBands) |->
     [ a |-> DialBands[i][1] * 100, b |-> DialBands[i][2] * 100,
       theta1 |-> HalfTurn - DialNorm(DialBands[i][2] * 100),
       theta2 |-> HalfTurn - DialNorm(DialBands[i][1] * 100) ]]

\* _risk_dial_png(value_pct, title): plt.close(fig) is reached only when
\* plt.tight_layout() did not raise.
risk_dial_png(g, value_pct, title) ==
  LET g1 == OpenFigure(g)
      fig == g1[Len(g1)]
  IN  IF TitleRaises(title) THEN [raised |-> "ValueError", gcf |-> g1]
      ELSE [ raised |-> "", gcf |-> CloseFigure(g1, fig), value |-> value_pct,
             sectors |-> DialSectors, needle |-> NeedleAngle(value_pct) ]

\* left offsets of the bars: left = 0; for each v: barh(left=left); left += v
RECURSIVE BarLefts(_, _)
BarLefts(vals, left) ==
  IF vals = <<>> THEN <<>> ELSE <<left>> \o BarLefts(Tail(vals), left + Head(vals))

\* _attribution_png(breakdown, title)
attribution_png(g, breakdown, title) ==
  LET g1 == OpenFigure(g)
      fig == g1[Len(g1)]
      vals == [i \in 1..Len(breakdown) |-> breakdown[i].contribution_percent]
      lefts == BarLefts(vals, 0)
  IN  IF TitleRaises(title) THEN [raised |-> "ValueError", gcf |-> g1]
      ELSE [ raised |-> "", gcf |-> CloseFigure(g1, fig),
             bars |-> [i \in 1..Len(breakdown) |->
                         [left |-> lefts[i], width |-> vals[i],
                          label |-> breakdown[i].source]] ]

\* datetime.isoformat(): a string, not the datetime it was made from.
IsoFormat(t) == <<"iso", t>>

\* the document of viz_timeseries_json with its y taken in reverse order
timeseries_doc_reversed(series, pollutant) ==
  [ data |-> << [ x |-> [i \in 1..Len(series) |-> IsoFormat(series[i].ts)],
                  y |-> [i \in 1..Len(series) |-> series[Len(series) + 1 - i].value],
                  type |-> "scatter", mode |-> "lines+markers", name |-> pollutant ] >>,
    layout |-> [title |-> pollutant, xaxis |-> "Time", yaxis |-> "ug/m3"] ]

\* the document of viz_timeseries_json: fig = {"data": [{"x": x, "y": y, ...}], "layout": ...}
timeseries_doc(series, pollutant) ==
  [ data |-> << [ x |-> [i \in 1..Len(series) |-> IsoFormat(series[i].ts)],
                  y |-> [i \in 1..Len(series) |-> series[i].value],
                  type |-> "scatter", mode |-> "lines+markers", name |-> pollutant ] >>,
    layout |-> [title |-> pollutant, xaxis |-> "Time", yaxis |-> "ug/m3"] ]

\* max(s["score_0_100"] for s in scores)
MaxScore(scores) ==
  CHOOSE m \in {scores[i].score_0_100 : i \in 1..Len(scores)} :
    \A i \in 1..Len(scores) : scores[i].score_0_100 <= m

\* TopScore keeping the last record with the largest score.
TopScoreLast(scores) ==
  scores[CHOOSE k \in 1..Len(scores) :
           /\ \A i \in 1..Len(scores) : scores[i].score_0_100 <= scores[k].score_0_100
           /\ \A j \in (k + 1)..Len(scores) : scores[j].score_0_100 < scores[k].score_0_100]

\* max(scores, key=lambda s: s["score_0_100"]): the first record with the largest score
TopScore(scores) ==
  scores[CHOOSE k \in 1..Len(scores) :
           /\ \A i \in 1..Len(scores) : scores[i].score_0_100 <= scores[k].score_0_100
           /\ \A j \in 1..(k - 1) : scores[j].score_0_100 < scores[k].score_0_100]

\* the document of viz_risk_dial_json
risk_dial_doc(scores) ==
  LET top == TopScore(scores)
  IN  [ value |-> top.score_0_100, label |-> top.pollutant,
        thresholds |-> [low |-> DialLow, med |-> DialMed, high |-> DialHigh],
        units |-> "score" ]

\* the document of viz_attribution_json
attribution_doc(attr, pollutant) ==
  [ data |-> << [ type |-> "bar", orientation |-> "h",
                  x |-> [i \in 1..Len(attr.breakdown) |-> attr.breakdown[i].contribution_percent],
                  y |-> <<pollutant>>,
                  name |-> [i \in 1..Len(attr.breakdown) |-> attr.breakdown[i].source] ] >>,
    layout |-> [title |-> pollutant] ]

(* ---------------------- visualization endpoints ----------------------- *)
\* png and doc record the response to the last request: png when it asked for
\* an image, doc when it asked for a document (the other one is NoResponse).
VizHours == {0, 1}

VizPollutants == {PM25, BadMath}
VizRegions == {DelhiNCR, BadMath}
VizScoreDraws == {3300, 9000}
VizAttrDraws == {10, 27}

Sep == <<" ">>

\* GET /api/v1/viz/timeseries.png (region left at its default)
VizTimeseriesPng ==
  \E pollutant \in VizPollutants, hours \in VizHours :
    \E nows \in ClockReads(hours + 1, clock, MaxVizClock), rs \in [1..(hours + 1) -> TimeseriesDraws] :
      LET series == generate_timeseries(hours, nows, rs)
          x == [i \in 1..Len(series) |-> series[i].ts]
          y == [i \in 1..Len(series) |-> series[i].value]
          r == line_plot_png(gcf, x, y, pollutant \o Sep \o DelhiNCR)
      IN  /\ Len(r.gcf) <= MaxFigs
          /\ gcf' = r.gcf
          /\ clock' = LastRead(nows, clock)
          /\ png' = IF r.raised # ""
                    THEN [ kind |-> "timeseries", req |-> <<pollutant, hours>>,
                           raised |-> r.raised ]
                    ELSE [ kind |-> "timeseries", req |-> <<pollutant, hours>>,
                           raised |-> "", series |-> series, x |-> r.x, y |-> r.y ]
          /\ doc' = NoResponse
          /\ UNCHANGED <<catalogVars, renderVars, resp, concVars>>

\* GET /api/v1/viz/timeseries.json
VizTimeseriesJson ==
  \E pollutant \in VizPollutants, hours \in VizHours :
    \E nows \in ClockReads(hours + 1, clock, MaxVizClock), rs \in [1..(hours + 1) -> TimeseriesDraws] :
      LET series == generate_timeseries(hours, nows, rs)
      IN  /\ doc' = [ kind |-> "timeseries", req |-> <<pollutant, hours>>,
                      series |-> series, body |-> timeseries_doc(series, pollutant) ]
          /\ clock' = LastRead(nows, clock)
          /\ png' = NoResponse
          /\ UNCHANGED <<catalogVars, renderVars, resp, gcf, concVars>>

\* GET /api/v1/viz/risk_dial.png
VizRiskDialPng ==
  \E region \in VizRegions, draws \in [1..Len(RiskPollutants) -> VizScoreDraws] :
    LET scores == generate_risk_scores(draws)
        max_score == MaxScore(scores)
        r == risk_dial_png(gcf, max_score, <<"R">> \o Sep \o region)
    IN  /\ Len(r.gcf) <= MaxFigs
        /\ gcf' = r.gcf
        /\ png' = IF r.raised # ""
                  THEN [kind |-> "risk_dial", req |-> <<region>>, raised |-> r.raised]
                  ELSE [ kind |-> "risk_dial", req |-> <<region>>, raised |-> "",
                         scores |-> scores, value |-> r.value,
                         sectors |-> r.sectors, needle |-> r.needle ]
        /\ doc' = NoResponse
        /\ UNCHANGED <<clock, catalogVars, renderVars, resp, concVars>>

\* GET /api/v1/viz/risk_dial.json
VizRiskDialJson ==
  \E region \in VizRegions, draws \in [1..Len(RiskPollutants) -> VizScoreDraws] :
    LET scores == generate_risk_scores(draws)
    IN  /\ doc' = [ kind |-> "risk_dial", req |-> <<region>>, scores |-> scores,
                    body |-> risk_dial_doc(scores) ]
        /\ png' = NoResponse
        /\ UNCHANGED <<clock, catalogVars, renderVars, resp, gcf, concVars>>

\* GET /api/v1/viz/attribution.png
VizAttributionPng ==
  \E pollutant \in VizPollutants, vals \in [1..Len(Sources) -> VizAttrDraws] :
    LET attr == generate_attribution(pollutant, vals)
        r == attribution_png(gcf, attr.breakdown, <<"S">> \o Sep \o pollutant)
    IN  /\ Len(r.gcf) <= MaxFigs
        /\ gcf' = r.gcf
        /\ png' = IF r.raised # ""
                  THEN [kind |-> "attribution", req |-> <<pollutant>>, raised |-> r.raised]
                  ELSE [ kind |-> "attribution", req |-> <<pollutant>>, raised |-> "",
                         attr |-> attr, bars |-> r.bars ]
        /\ doc' = NoResponse
        /\ UNCHANGED <<clock, catalogVars, renderVars, resp, concVars>>

\* GET /api/v1/viz/attribution.json
VizAttributionJson ==
  \E pollutant \in VizPollutants, vals \in [1..Len(Sources) -> VizAttrDraws] :
    LET attr == generate_attribution(pollutant, vals)
    IN  /\ doc' = [ kind |-> "attribution", req |-> <<pollutant>>, attr |-> attr,
                    body |-> attribution_doc(attr, pollutant) ]
        /\ png' = NoResponse
        /\ UNCHANGED <<clock, catalogVars, renderVars, resp, gcf, concVars>>

NextViz ==
  \/ VizTimeseriesPng
  \/ VizTimeseriesJson
  \/ VizRiskDialPng
  \/ VizRiskDialJson
  \/ VizAttributionPng
  \/ VizAttributionJson

SpecViz == Init /\ [][NextViz]_vars

(* ------------------------ data endpoints ------------------------------ *)
\* "station_id or _STATIONS[0].station_id": None and "" fall back to the first station.
OrFirstStation(stations, station_id) ==
  IF TruthyStr(station_id) THEN station_id[1] ELSE stations[1].station_id

\* get_forecasts: hours = 168 if horizon == "7d" else 72 if horizon == "72h" else 24
HorizonHours(horizon) ==
  IF horizon = "7d" THEN 168 ELSE IF horizon = "72h" THEN 72 ELSE 24

\* get_forecasts / get_timeseries: "ug/m3" if pollutant.startswith("PM") else "ppb";
\* the label is tested as given, without upper().
Units(pollutant) == IF StartsWith(pollutant, PMPrefix) THEN "ug/m3" ELSE "ppb"

get_forecasts(stations, station_id, pollutant, horizon, nows, rs) ==
  LET st == OrFirstStation(stations, station_id)
      hours == HorizonHours(horizon)
  IN  [ station_id |-> st, pollutant |-> pollutant, units |-> Units(pollutant),
        horizon |-> horizon,
        forecasts |-> generate_forecasts(pollutant, hours, nows, rs) ]

\* window.replace("h", "")
RemoveChar(s, c) == SelectSeq(s, LAMBDA x : x # c)

DigitChars == <<"0", "1", "2", "3", "4", "5", "6", "7", "8", "9">>
DigitValue(c) == (CHOOSE k \in 1..10 : DigitChars[k] = c) - 1
IsDigit(c) == \E k \in 1..10 : DigitChars[k] = c

\* int(s) for an unsigned digit string; anything else here raises ValueError.
IsInt(s) == s # <<>> /\ \A i \in 1..Len(s) : IsDigit(s[i])
RECURSIVE IntOf(_)
IntOf(s) == IF s = <<>> THEN 0 ELSE 10 * IntOf(SubSeq(s, 1, Len(s) - 1)) + DigitValue(s[Len(s)])

\* get_timeseries: hours = int(window.replace("h","")) if "h" in window else 48
WindowHours(window) ==
  LET hasH == \E i \in 1..Len(window) : window[i] = "h"
      digits == RemoveChar(window, "h")
  IN  IF hasH /\ ~IsInt(digits) THEN [ raised |-> "ValueError" ]
      ELSE [ raised |-> "", hours |-> IF hasH THEN IntOf(digits) ELSE 48 ]

\* get_timeseries: nows and rs are the clock readings and draws of the points.
get_timeseries(stations, station_id, pollutant, window, nows, rs) ==
  LET st == OrFirstStation(stations, station_id)
      w == WindowHours(window)
  IN  IF w.raised # "" THEN [ raised |-> w.raised ]
      ELSE [ raised |-> "",
             station_id |-> st, pollutant |-> pollutant, units |-> Units(pollutant),
             series |-> generate_timeseries(w.hours, nows, rs) ]

\* get_risk_summary: r = region or "Delhi NCR"; ts = utcnow()
get_risk_summary(region, now, draws) ==
  [ region |-> IF TruthyStr(region) THEN region[1] ELSE "Delhi NCR",
    timestamp |-> now,
    risk_scores |-> generate_risk_scores(draws) ]

\* get_attribution: station_id and window are ignored
get_attribution(pollutant, vals) == generate_attribution(pollutant, vals)

ConstSeq(n, v) == [i \in 1..n |-> v]

\* how many points a window asks for: hours + 1, none when the window does not parse
PointsOf(window) ==
  IF WindowHours(window).raised # "" THEN 0 ELSE WindowHours(window).hours + 1

ApiStationIds == {Some(""), Some("ST-DEL-002")}
Horizons == {"24h", "72h", "7d", "1h"}
Windows == { <<"1", "h">>, <<"0", "h">>, <<"x", "h">>, <<"2">> }
ApiRegions == {None, Some("Mumbai")}

\* One request each; a request's clock readings and draws are taken constant
\* over its points to keep the long horizons enumerable.
GetForecasts ==
  \E station_id \in ApiStationIds, pollutant \in Pollutants, horizon \in Horizons :
    \E now \in clock..MaxClock, r \in ForecastDraws :
      LET hours == HorizonHours(horizon)
      IN  /\ resp' = [ op |-> "get_forecasts", station_id |-> station_id,
                       pollutant |-> pollutant, horizon |-> horizon,
                       result |-> get_forecasts(STATIONS, station_id, pollutant, horizon,
                                                ConstSeq(hours, now), ConstSeq(hours, r)) ]
          /\ clock' = now
          /\ UNCHANGED <<catalogVars, renderVars, vizVars, concVars>>

GetTimeseries ==
  \E station_id \in ApiStationIds, pollutant \in {PM25, NO2}, window \in Windows :
    \E now \in clock..MaxClock, r \in TimeseriesDraws :
      /\ resp' = [ op |-> "get_timeseries", station_id |-> station_id,
                   pollutant |-> pollutant, window |-> window,
                   result |-> get_timeseries(STATIONS, station_id, pollutant, window,
                                             ConstSeq(PointsOf(window), now),
                                             ConstSeq(PointsOf(window), r)) ]
      /\ clock' = IF PointsOf(window) = 0 THEN clock ELSE now
      /\ UNCHANGED <<catalogVars, renderVars, vizVars, concVars>>

GetRiskSummary ==
  \E region \in ApiRegions, now \in clock..MaxClock :
    \E draws \in [1..Len(RiskPollutants) -> VizScoreDraws] :
      /\ resp' = [ op |-> "get_risk_summary", region |-> region,
                   result |-> get_risk_summary(region, now, draws) ]
      /\ clock' = now
      /\ UNCHANGED <<catalogVars, renderVars, vizVars, concVars>>

GetAttribution ==
  \E pollutant \in {PM25, NO2}, vals \in [1..Len(Sources) -> VizAttrDraws] :
    /\ resp' = [ op |-> "get_attribution", pollutant |-> pollutant, vals |-> vals,
                 result |-> get_attribution(pollutant, vals) ]
    /\ UNCHANGED <<clock, catalogVars, renderVars, vizVars, concVars>>

\* Every data endpoint and catalog query.
NextApi ==
  \/ ListStations
  \/ GetStation
  \/ GetForecasts
  \/ GetTimeseries
  \/ GetRiskSummary
  \/ GetAttribution
  \/ ListAlerts

SpecApi == Init /\ [][NextApi]_vars

(* ------------- generate_forecasts called by concurrent callers -------- *)
\* Each caller runs generate_forecasts step by step; the callers share the wall
\* clock and the random source.  out, h and ts are locals of each call.
\* random.random() is one atomic draw from the shared source.
ConcPollutant(c) == IF c = 1 THEN PM25 ELSE NO2

\* one loop counter shared by all the callers
HOwnerShared(c) == 1

\* the loop counter h of caller c is a local of its own call
HOwner(c) == c

\* def generate_forecasts(...): out = []; the loop starts at h = 0
ConcCall(c) ==
  /\ pc[c] \in {"idle", "done"}
  /\ \E hours \in 0..MaxConcHours : hrs' = [hrs EXCEPT ![c] = hours]
  /\ out' = [out EXCEPT ![c] = <<>>]
  /\ hv' = [hv EXCEPT ![HOwner(c)] = 0]
  /\ pc' = [pc EXCEPT ![c] = "loop"]
  /\ UNCHANGED <<clock, catalogVars, renderVars, resp, vizVars, ts>>

\* for h in range(hours): ts = _iso_now_plus(h)
ConcReadClock(c) ==
  /\ pc[c] = "loop"
  /\ hv[HOwner(c)] < hrs[c]
  /\ \E now \in clock..MaxConcClock :
       /\ clock' = now
       /\ ts' = [ts EXCEPT ![c] = now + hv[HOwner(c)] * Hour]
  /\ pc' = [pc EXCEPT ![c] = "draw"]
  /\ UNCHANGED <<catalogVars, renderVars, resp, vizVars, hv, hrs, out>>

\* noise = ... random.random() ...; val = ...; out.append({...}); next h
ConcAppend(c) ==
  /\ pc[c] = "draw"
  /\ \E r \in ForecastDraws :
       LET h == hv[HOwner(c)]
           p == ForecastPoint(ForecastBase(ConcPollutant(c)), h, ts[c] - h * Hour, r)
       IN  out' = [out EXCEPT ![c] = Append(@, p)]
  /\ hv' = [hv EXCEPT ![HOwner(c)] = @ + 1]
  /\ pc' = [pc EXCEPT ![c] = "loop"]
  /\ UNCHANGED <<clock, catalogVars, renderVars, resp, vizVars, hrs, ts>>

\* the range is exhausted: return out
ConcReturn(c) ==
  /\ pc[c] = "loop"
  /\ hv[HOwner(c)] >= hrs[c]
  /\ pc' = [pc EXCEPT ![c] = "done"]
  /\ UNCHANGED <<clock, catalogVars, renderVars, resp, vizVars, hv, hrs, ts, out>>

NextConc ==
  \E c \in Callers :
    \/ ConcCall(c)
    \/ ConcReadClock(c)
    \/ ConcAppend(c)
    \/ ConcReturn(c)

SpecConc == Init /\ [][NextConc]_vars

(* ------------------- render calls running concurrently --------------- *)
\* The image endpoints are plain def handlers, run by the server on worker
\* threads; each render call is a sequence of pyplot / figure operations and
\* the registry of figures (with its current figure) is process-wide.
RenderKinds == {"line", "dial", "attribution"}

\* plt.gcf(): the current figure is the last one of the registry.
CurrentFig(g) == g[Len(g)]

\* The figure an operation of a render call acts on.  _line_plot_png works
\* through pyplot throughout (plt.plot, plt.tight_layout, plt.savefig,
\* plt.close()): the current figure.  _risk_dial_png and _attribution_png draw
\* on their own ax, save with fig.savefig and close with plt.close(fig), but lay
\* out with plt.tight_layout(): the current figure.
RenderTarget(g, kind, step, own) ==
  IF kind = "line" \/ step = "layout" THEN CurrentFig(g) ELSE own

Acted(r, step, g) ==
  [by |-> r, step |-> step, on |-> RenderTarget(g, rkind[r], step, rfig[r]), own |-> rfig[r]]

\* plt.figure(figsize=...) / plt.subplots(figsize=...)
RenderOpen(r) ==
  /\ rpc[r] \in {"idle", "done"}
  /\ Len(gcf) < MaxRenderFigs
  /\ NewFigNum(gcf) <= MaxFigNum
  /\ \E kind \in RenderKinds : rkind' = [rkind EXCEPT ![r] = kind]
  /\ gcf' = OpenFigure(gcf)
  /\ rfig' = [rfig EXCEPT ![r] = NewFigNum(gcf)]
  /\ acted' = [by |-> r, step |-> "open", on |-> NewFigNum(gcf), own |-> NewFigNum(gcf)]
  /\ rpc' = [rpc EXCEPT ![r] = "draw"]
  /\ UNCHANGED <<clock, catalogVars, resp, png, doc, concVars>>

\* plt.plot / plt.title / ... , or ax.add_patch / ax.plot / ax.barh / ...
RenderDraw(r) ==
  /\ rpc[r] = "draw"
  /\ acted' = Acted(r, "draw", gcf)
  /\ rpc' = [rpc EXCEPT ![r] = "layout"]
  /\ UNCHANGED <<clock, catalogVars, resp, vizVars, concVars, rkind, rfig>>

\* plt.tight_layout()
RenderLayout(r) ==
  /\ rpc[r] = "layout"
  /\ acted' = Acted(r, "layout", gcf)
  /\ rpc' = [rpc EXCEPT ![r] = "save"]
  /\ UNCHANGED <<clock, catalogVars, resp, vizVars, concVars, rkind, rfig>>

\* plt.savefig(buf, ...) or fig.savefig(buf, ...)
RenderSave(r) ==
  /\ rpc[r] = "save"
  /\ acted' = Acted(r, "save", gcf)
  /\ rpc' = [rpc EXCEPT ![r] = "close"]
  /\ UNCHANGED <<clock, catalogVars, resp, vizVars, concVars, rkind, rfig>>

\* plt.close() or plt.close(fig); closing a figure already closed does nothing
RenderClose(r) ==
  /\ rpc[r] = "close"
  /\ acted' = Acted(r, "close", gcf)
  /\ gcf' = CloseFigure(gcf, RenderTarget(gcf, rkind[r], "close", rfig[r]))
  /\ rpc' = [rpc EXCEPT ![r] = "done"]
  /\ UNCHANGED <<clock, catalogVars, resp, png, doc, concVars, rkind, rfig>>

NextRender ==
  \E r \in Renderers :
    \/ RenderOpen(r)
    \/ RenderDraw(r)
    \/ RenderLayout(r)
    \/ RenderSave(r)
    \/ RenderClose(r)

SpecRender == Init /\ [][NextRender]_vars

(* ============================== claims =============================== *)
Abs(n) == IF n < 0 THEN -n ELSE n

\* C1: every generate_forecasts(station, pollutant, hours=N) returns exactly N
\* points whose timestamps are strictly increasing and exactly hourly from one
\* single 'now' (point h is now + h hours), each with 0 <= ci_lower <= value <= ci_upper.
C1_ForecastContract ==
  resp.op = "generate_forecasts" =>
    LET r == resp.result
    IN  /\ Len(r) = resp.hours
        /\ \A i \in 1..Len(r) : r[i].ts = r[1].ts + (i - 1) * 3600
        /\ \A i, j \in 1..Len(r) : i < j => r[i].ts < r[j].ts
        /\ \A i \in 1..Len(r) :
             /\ 0 <= r[i].ci_lower
             /\ r[i].ci_lower <= r[i].value
             /\ r[i].value <= r[i].ci_upper

\* C2: for every generate_attribution call the contribution_percent values sum
\* to 100.0 within 0.1, and every entry's value equals its contribution_percent.
C2_AttributionSum ==
  resp.op = "generate_attribution" =>
    LET b == resp.result.breakdown
        percents == [i \in 1..Len(b) |-> b[i].contribution_percent]
    IN  /\ Len(b) = 5
        /\ Abs(SumSeq(percents) - 10000) <= 10
        /\ \A i \in 1..Len(b) : b[i].value = b[i].contribution_percent

\* C2 witness: an attribution whose rounded shares do not add up to 100.00 exactly.
C2_Witness ==
  /\ resp.op = "generate_attribution"
  /\ SumSeq([i \in 1..5 |-> resp.result.breakdown[i].contribution_percent]) # 10000

\* C3: in every record of generate_risk_scores the category is Low iff
\* score < 33, Moderate iff 33 <= score < 66, High iff score >= 66.
C3_CategoryOfScore ==
  resp.op = "generate_risk_scores" =>
    \A i \in 1..Len(resp.result) :
      LET rec == resp.result[i]
      IN  /\ rec.category \in {"Low", "Moderate", "High"}
          /\ rec.category = "Low" <=> rec.score_0_100 < 3300
          /\ rec.category = "Moderate" <=> (3300 <= rec.score_0_100 /\ rec.score_0_100 < 6600)
          /\ rec.category = "High" <=> rec.score_0_100 >= 6600

\* C3 witness: one score set holding both boundary scores, 33.00 and 66.00.
C3_Witness ==
  /\ resp.op = "generate_risk_scores"
  /\ \E i \in 1..4 : resp.result[i].score_0_100 = 3300 /\ resp.result[i].category = "Moderate"
  /\ \E i \in 1..4 : resp.result[i].score_0_100 = 6600 /\ resp.result[i].category = "High"

\* The stations whose region equals the given region exactly, in catalog order.
ExactRegion(region) == SelectSeq(STATIONS, LAMBDA s : s.region = region)

\* C6: for every provided region, list_stations returns the stations whose
\* region equals it exactly, in catalog order, positions offset .. offset+limit-1.
C6_ListStationsPage ==
  (resp.op = "list_stations" /\ resp.region # None) =>
    LET filtered == ExactRegion(resp.region[1])
        n == Max(0, Min(resp.limit, Len(filtered) - resp.offset))
    IN  /\ Len(resp.result) = n
        /\ \A i \in 1..n : resp.result[i] = filtered[resp.offset + i]

\* C7: list_alerts returns, without error, exactly the alerts whose station
\* resolves to a station of the given region (when a region is given) and
\* whose timestamp is >= since (when since is given).
C7_ListAlertsFilter ==
  resp.op = "list_alerts" =>
    LET wanted(a) ==
          /\ resp.region # None =>
               \E i \in 1..Len(STATIONS) :
                  /\ STATIONS[i].station_id = a.station_id
                  /\ STATIONS[i].region = resp.region[1]
          /\ resp.since # None => a.ts >= resp.since[1].t
    IN  /\ resp.result.raised = ""
        /\ resp.result.body = SelectSeq(ALERTS, wanted)

\* C9: get_station returns the station with the given id when the catalog has
\* one, and signals NotFound (404) exactly when it has none.
C9_GetStation ==
  resp.op = "get_station" =>
    LET known == \E i \in 1..Len(STATIONS) : STATIONS[i].station_id = resp.station_id
    IN  /\ known =>
             /\ resp.result.status = 200
             /\ resp.result.body.station_id = resp.station_id
             /\ \E i \in 1..Len(STATIONS) : STATIONS[i] = resp.result.body
        /\ ~known => resp.result.status = 404

\* C9 witness: a lookup of an id of no station, answered with 404.
C9_Witness ==
  /\ resp.op = "get_station"
  /\ resp.station_id = "ST-DEL-003"
  /\ resp.result.status = 404

\* C4: the line-chart document's y equals the values of the series it was built
\* from, in order, and x is as long as y; the dial document's thresholds are
\* {low: 33, med: 66, high: 100}; the stacked-bar document lists the breakdown's
\* contribution_percent values and source labels in the breakdown's order.
C4_DocumentOfSeries ==
  /\ doc.kind = "timeseries" =>
       LET d == doc.body.data[1]
       IN  /\ Len(d.y) = Len(doc.series)
           /\ \A i \in 1..Len(doc.series) : d.y[i] = doc.series[i].value
           /\ Len(d.x) = Len(d.y)
  /\ doc.kind = "risk_dial" =>
       doc.body.thresholds = [low |-> 33, med |-> 66, high |-> 100]
  /\ doc.kind = "attribution" =>
       LET d == doc.body.data[1]
           b == doc.attr.breakdown
       IN  /\ Len(d.x) = Len(b) /\ Len(d.name) = Len(b)
           /\ \A i \in 1..Len(b) :
                d.x[i] = b[i].contribution_percent /\ d.name[i] = b[i].source

\* C4 witness: a line-chart document of two points with different values.
C4_Witness ==
  /\ doc.kind = "timeseries"
  /\ Len(doc.series) = 2
  /\ doc.series[1].value # doc.series[2].value
  /\ doc.body.data[1].y = <<doc.series[1].value, doc.series[2].value>>

\* What an image shows, and what a document declares, as comparable values.
Drawn(image) ==
  CASE image.kind = "timeseries" ->
         [x |-> [i \in 1..Len(image.x) |-> IsoFormat(image.x[i])], y |-> image.y]
    [] image.kind = "risk_dial" -> [value |-> image.value]
    [] image.kind = "attribution" ->
         [ x |-> [i \in 1..Len(image.bars) |-> image.bars[i].width],
           name |-> [i \in 1..Len(image.bars) |-> image.bars[i].label] ]

Declared(document) ==
  CASE document.kind = "timeseries" ->
         [x |-> document.body.data[1].x, y |-> document.body.data[1].y]
    [] document.kind = "risk_dial" -> [value |-> document.body.value]
    [] document.kind = "attribution" ->
         [x |-> document.body.data[1].x, name |-> document.body.data[1].name]

\* C5: for the same chart kind and request parameters the image and the
\* document show the same values: an image rendered right after a document
\* for the same request draws exactly the values that document declared.
C5_SharedSeries ==
  [][ ( /\ doc.kind # "none"
        /\ png'.kind = doc.kind
        /\ png'.req = doc.req
        /\ png'.raised = "" )
      => Drawn(png') = Declared(doc) ]_vars

\* C10: after any sequence of render calls, successful or failing, no drawing
\* surface (figure) is left open.
C10_NoOpenFigure == gcf = <<>>

\* The hour offset a timestamp stands for (the clock stays far below one hour
\* within a run).
HourOffset(p) == p.ts \div 3600

\* C8: with several callers running generate_forecasts concurrently, under every
\* interleaving no call raises and every returned sequence has exactly one
\* point per hour offset 0..N-1, in order: none duplicated, none missing (and
\* a sequence under construction holds the offsets 0..k-1 so far).
C8_ConcurrentForecasts ==
  \A c \in Callers :
    /\ pc[c] \in {"idle", "loop", "draw", "done"}
    /\ pc[c] # "idle" =>
         /\ \A i \in 1..Len(out[c]) : HourOffset(out[c][i]) = i - 1
         /\ Len(out[c]) <= hrs[c]
    /\ pc[c] = "done" => Len(out[c]) = hrs[c]

\* C8 witness: one caller has returned two points while the other, which has
\* already appended its first point, is in the middle of its second iteration.
C8_Witness ==
  /\ pc[1] = "done" /\ Len(out[1]) = 2
  /\ pc[2] = "draw" /\ Len(out[2]) = 1 /\ hrs[2] = 2
  /\ out[2][1].ts < out[1][2].ts - 3600

\* C11: when render calls run concurrently, each call draws on, lays out,
\* saves and closes only the figure it created itself.
C11_OwnSurfaceOnly == acted.on = acted.own

\* How many whole hours before the end of the call a timestamp lies (the clock
\* stays far below one hour within a run).
BackOffset(p) == (clock - p.ts) \div 3600

\* C12: generate_timeseries(station, pollutant, hours) returns hours+1 points,
\* one per hour offset hours, hours-1, .., 0 before 'now' (each offset exactly
\* once), each with qa_flag "good" and a value within [40, 120].
C12_TimeseriesShape ==
  resp.op = "generate_timeseries" =>
    LET r == resp.result
    IN  /\ Len(r) = resp.hours + 1
        /\ \A i \in 1..Len(r) :
             /\ BackOffset(r[i]) = resp.hours + 1 - i
             /\ r[i].qa_flag = "good"
             /\ 4000 <= r[i].value /\ r[i].value <= 12000

\* C12 witness: a window of two hours, three points, read at different clock ticks.
C12_Witness ==
  /\ resp.op = "generate_timeseries"
  /\ resp.hours = 2
  /\ Len(resp.result) = 3
  /\ resp.result[3].ts - resp.result[1].ts > 2 * 3600

ForecastFields == {"ts", "value", "ci_lower", "ci_upper", "model_version"}
TimeseriesFields == {"ts", "value", "qa_flag"}
RiskFields == {"pollutant", "score_0_100", "category", "threshold_used"}

\* C13: the four generators are total: for any non-negative hours (zero
\* included) and any pollutant label, PM-prefixed or not, each call returns a
\* complete result (every point or record with all its fields) and does not raise.
C13_GeneratorsTotal ==
  /\ resp.op = "generate_forecasts" =>
       /\ Len(resp.result) = resp.hours
       /\ \A i \in 1..Len(resp.result) : DOMAIN resp.result[i] = ForecastFields
  /\ resp.op = "generate_timeseries" =>
       /\ Len(resp.result) = resp.hours + 1
       /\ \A i \in 1..Len(resp.result) : DOMAIN resp.result[i] = TimeseriesFields
  /\ resp.op = "generate_risk_scores" =>
       /\ Len(resp.result) = Len(RiskPollutants)
       /\ \A i \in 1..Len(resp.result) : DOMAIN resp.result[i] = RiskFields
  /\ resp.op = "generate_attribution" =>
       /\ resp.result.raised = ""
       /\ Len(resp.result.breakdown) = Len(Sources)

\* C13 witness: a forecast over zero hours for a label outside the PM family
\* has returned the empty list.
C13_Witness ==
  /\ resp.op = "generate_forecasts"
  /\ resp.pollutant = NO2
  /\ resp.hours = 0
  /\ resp.result = <<>>

C14_CatalogReadOnly == STATIONS = SeedStations /\ ALERTS = SeedAlerts

\* C14 witness: list_alerts has filtered every alert out of its answer.
C14_Witness ==
  /\ resp.op = "list_alerts"
  /\ resp.result.raised = ""
  /\ resp.result.body = <<>>
  /\ ALERTS # <<>>

\* C19: the PM-family predicate is the same at every decision point: a forecast
\* is computed with the particulate base exactly when its units are the
\* particulate units.
C19_OnePMPredicate ==
  (resp.op = "get_forecasts" /\ resp.result.forecasts # <<>>) =>
    (resp.result.forecasts[1].value >= BasePM * 100 <=> resp.result.units = "ug/m3")

\* The sum of the first n elements of a sequence of numbers.
PrefixSum(s, n) == SumSeq(SubSeq(s, 1, n))

\* C15: in the stacked-bar rendering the left offset of each segment is the sum
\* of all preceding contribution percents (starting at 0), and the right edge
\* of the last segment, the total of the percents, never exceeds the chart's
\* fixed 0-100 domain.
C15_StackedBar ==
  (png.kind = "attribution" /\ png.raised = "") =>
    LET shares == [i \in 1..Len(png.attr.breakdown) |->
                     png.attr.breakdown[i].contribution_percent]
        n == Len(png.bars)
    IN  /\ n = Len(shares)
        /\ \A i \in 1..n :
             /\ png.bars[i].width = shares[i]
             /\ png.bars[i].left = PrefixSum(shares, i - 1)
        /\ png.bars[n].left + png.bars[n].width <= 100 * 100

\* C17: the dial draws value v at 180*(1 - v/100) degrees (0 at the left end,
\* 100 at the right end), its bands tile the half-circle with no gap and no
\* overlap, and the needle lies in the band whose value range contains v.
C17_DialGeometry ==
  (png.kind = "risk_dial" /\ png.raised = "") =>
    LET sec == png.sectors
        n == Len(sec)
    IN  /\ 100 * png.needle = 1800 * (100 * 100 - png.value)
        /\ sec[1].theta2 = 180000
        /\ sec[n].theta1 = 0
        /\ \A i \in 1..n : sec[i].theta1 < sec[i].theta2
        /\ \A i \in 1..(n - 1) : sec[i].theta1 = sec[i + 1].theta2
        /\ \A i \in 1..n :
             (sec[i].a <= png.value /\ png.value <= sec[i].b) =>
               (sec[i].theta1 <= png.needle /\ png.needle <= sec[i].theta2)

\* C17 witness: a dial rendered for a value on the boundary of two bands.
C17_Witness ==
  /\ png.kind = "risk_dial"
  /\ png.raised = ""
  /\ png.value = 3300
  /\ png.needle = 120600

\* C18: generate_risk_scores returns exactly four records, for PM2.5, PM10, NO2
\* and O3 in that order, each with a score within [10, 90] and threshold_used
\* 50 for the PM-prefixed labels and 40 for the others.
C18_RiskRecords ==
  resp.op = "generate_risk_scores" =>
    LET r == resp.result
    IN  /\ Len(r) = 4
        /\ [i \in 1..4 |-> r[i].pollutant] = <<PM25, PM10, NO2, O3>>
        /\ \A i \in 1..4 : 1000 <= r[i].score_0_100 /\ r[i].score_0_100 <= 9000
        /\ r[1].threshold_used = 50 /\ r[2].threshold_used = 50
        /\ r[3].threshold_used = 40 /\ r[4].threshold_used = 40

\* C18 witness: a score set touching both ends of the score range.
C18_Witness ==
  /\ resp.op = "generate_risk_scores"
  /\ resp.result[1].score_0_100 = 1000
  /\ resp.result[4].score_0_100 = 9000

\* C20: the dial shows the maximum of the four scores of one generated score
\* set: the value handed to the image renderer is that maximum; the document's
\* value is that maximum and its label is the pollutant of the first record
\* attaining it; the value is within [0, 100].
C20_DialShowsMaximum ==
  /\ (png.kind = "risk_dial" /\ png.raised = "") =>
       /\ \A i \in 1..Len(png.scores) : png.scores[i].score_0_100 <= png.value
       /\ \E k \in 1..Len(png.scores) : png.scores[k].score_0_100 = png.value
       /\ 0 <= png.value /\ png.value <= 100 * 100
  /\ doc.kind = "risk_dial" =>
       /\ \A i \in 1..Len(doc.scores) : doc.scores[i].score_0_100 <= doc.body.value
       /\ \E k \in 1..Len(doc.scores) :
            /\ doc.scores[k].score_0_100 = doc.body.value
            /\ doc.scores[k].pollutant = doc.body.label
            /\ \A j \in 1..(k - 1) : doc.scores[j].score_0_100 < doc.body.value
       /\ 0 <= doc.body.value /\ doc.body.value <= 100 * 100

\* C20 witness: two records tie for the maximum and the first of them is named.
C20_Witness ==
  /\ doc.kind = "risk_dial"
  /\ doc.scores[1].score_0_100 < doc.scores[2].score_0_100
  /\ doc.scores[2].score_0_100 = doc.scores[3].score_0_100
  /\ doc.scores[4].score_0_100 <= doc.scores[2].score_0_100
  /\ doc.body.label = PM10

====
